---- MODULE Spec2Model ----
(***************************************************************************)
(* A model of composite_image_creator.py: four input images are classified *)
(* by orientation, joined pairwise on white canvases according to a fixed  *)
(* ladder of strategies, optionally downscaled, and saved.  The command    *)
(* line entry point wraps the whole pipeline.                              *)
(*                                                                         *)
(* An image is a record [w, h, layers].  layers is the list of opaque      *)
(* rectangles painted on the canvas so far, in painting order; a pixel     *)
(* shows the last rectangle that covers it.  A rectangle of source 0 is    *)
(* white fill, a rectangle of source i >= 1 shows pixels of input file i.  *)
(***************************************************************************)
EXTENDS Integers, Sequences, FiniteSets, TLC

VARIABLES pc, caller, image_paths, downscale_factor,
          portrait_images, landscape_images, square_images,
          strategy, final_image, joins, choices, opened,
          target, written, error, exit_code, err_stream,
          output_path, saved,
          uploaded_files, app_pc, temp_files, portrait_count,
          landscape_count, square_count, message, shown

\* the output path and the file save_optimized_image writes
saveVars == <<output_path, saved>>

\* the state of one run of the front end's script
appVars == <<uploaded_files, app_pc, temp_files, portrait_count,
             landscape_count, square_count, message, shown>>

vars == <<pc, caller, image_paths, downscale_factor,
          portrait_images, landscape_images, square_images,
          strategy, final_image, joins, choices, opened,
          target, written, error, exit_code, err_stream,
          saveVars, appVars>>

(***************************************************************************)
(* Bounds of the model.                                                    *)
(***************************************************************************)
\* largest width or height of an input file in Spec
MaxDim == 2
\* largest width or height of an input file in SpecArrange
ArrDim == 3
\* largest width or height of an input file in SpecWide
WideDim == 4
\* largest width or height of an input file in SpecScale
ScaleDim == 45
\* a scale factor is the double nearest to num / den, as float("0.7") is
\* most tokens of an output path in SpecSave
MaxPath == 4

Factor(num, den) == [num |-> num, den |-> den]
\* the scale factors tried in Spec: 0, 0.25, 0.5, 0.75, 1.0, 1.5
Factors == {Factor(k, 4) : k \in {0, 1, 2, 3, 4, 6}}
\* the scale factors tried in SpecScale: 0.1, 0.2, ..., 1.0
Tenths == {Factor(k, 10) : k \in 1..10}
\* downscale_factor: float = 1.0
DefaultFactor == Factor(1, 1)
\* lengths of the list of image paths tried
Counts == {3, 4, 5}

Max(a, b) == IF a >= b THEN a ELSE b
Min(a, b) == IF a <= b THEN a ELSE b

(***************************************************************************)
(* Files.  A path names a missing file, a file that is not an image, or an *)
(* image of some width and height.                                         *)
(***************************************************************************)
Missing == [kind |-> "missing", w |-> 0, h |-> 0]
Corrupt == [kind |-> "corrupt", w |-> 0, h |-> 0]
ImageFile(w, h) == [kind |-> "image", w |-> w, h |-> h]
ImageFiles(m) == {ImageFile(w, h) : w \in 1..m, h \in 1..m}
Files(m) == ImageFiles(m) \cup {Missing, Corrupt}

\* os.path.isfile
isfile(f) == f.kind # "missing"

(***************************************************************************)
(* Rasters.                                                                *)
(***************************************************************************)
White == 0
Resampled == 0 - 1
NoImage == [w |-> 0, h |-> 0, layers |-> <<>>]

Rect(src, x, y, w, h, u, v) ==
    [src |-> src, x |-> x, y |-> y, w |-> w, h |-> h, u |-> u, v |-> v]

\* Image.open on the path at position i of image_paths
ImageOpen(paths, i) ==
    [w |-> paths[i].w, h |-> paths[i].h,
     layers |-> <<Rect(i, 0, 0, paths[i].w, paths[i].h, 0, 0)>>]

\* Image.new('RGB', (width, height), color='white')
ImageNew(width, height) ==
    [w |-> width, h |-> height,
     layers |-> <<Rect(White, 0, 0, width, height, 0, 0)>>]

\* one rectangle of a pasted image, moved to the paste origin and cut to
\* the canvas
Clip(r, ox, oy, cw, ch) ==
    LET x0 == r.x + ox
        y0 == r.y + oy
        x1 == Min(x0 + r.w, cw)
        y1 == Min(y0 + r.h, ch)
    IN  Rect(r.src, x0, y0, x1 - x0, y1 - y0, r.u, r.v)

\* Image.paste(img, (ox, oy)): every pixel of img, its white padding
\* included, overwrites the canvas pixel under it
paste(canvas, img, ox, oy) ==
    LET moved == [k \in 1..Len(img.layers) |->
                     Clip(img.layers[k], ox, oy, canvas.w, canvas.h)]
        kept  == SelectSeq(moved, LAMBDA r : r.w > 0 /\ r.h > 0)
    IN  [canvas EXCEPT !.layers = canvas.layers \o kept]

\* the pixel of img at (x, y): white, or <<i, u, v>> for pixel (u, v) of
\* input file i
Pixel(img, x, y) ==
    LET over == {k \in 1..Len(img.layers) :
                    /\ img.layers[k].x <= x
                    /\ x < img.layers[k].x + img.layers[k].w
                    /\ img.layers[k].y <= y
                    /\ y < img.layers[k].y + img.layers[k].h}
        top  == CHOOSE k \in over : \A j \in over : j <= k
        r    == img.layers[top]
    IN  IF over = {} THEN <<"blank">>
        ELSE IF r.src = White THEN <<"white">>
        ELSE <<r.src, x - r.x + r.u, y - r.y + r.v>>

join_pil_images_horizontally(img1, img2) ==
    LET width  == img1.w + img2.w
        height == Max(img1.h, img2.h)
    IN  paste(paste(ImageNew(width, height), img1, 0, 0), img2, img1.w, 0)

\* the canvas as wide as the narrower image only
join_pil_images_vertically_narrow(img1, img2) ==
    LET width  == Min(img1.w, img2.w)
        height == img1.h + img2.h
    IN  paste(paste(ImageNew(width, height), img1, 0, 0), img2, 0, img1.h)

join_pil_images_vertically(img1, img2) ==
    LET width  == Max(img1.w, img2.w)
        height == img1.h + img2.h
    IN  paste(paste(ImageNew(width, height), img1, 0, 0), img2, 0, img1.h)

\* the second image pasted at its own width instead of the first one's
join_images_horizontally_misplaced(paths, i1, i2) ==
    LET img1   == ImageOpen(paths, i1)
        img2   == ImageOpen(paths, i2)
        width  == img1.w + img2.w
        height == Max(img1.h, img2.h)
    IN  paste(paste(ImageNew(width, height), img1, 0, 0), img2, img2.w, 0)

join_images_horizontally(paths, i1, i2) ==
    LET img1   == ImageOpen(paths, i1)
        img2   == ImageOpen(paths, i2)
        width  == img1.w + img2.w
        height == Max(img1.h, img2.h)
    IN  paste(paste(ImageNew(width, height), img1, 0, 0), img2, img1.w, 0)

join_images_vertically(paths, i1, i2) ==
    LET img1   == ImageOpen(paths, i1)
        img2   == ImageOpen(paths, i2)
        width  == Max(img1.w, img2.w)
        height == img1.h + img2.h
    IN  paste(paste(ImageNew(width, height), img1, 0, 0), img2, 0, img1.h)

(***************************************************************************)
(* Double-precision arithmetic.  A non-negative double is held exactly as  *)
(* [ip, fr]: the integer part and the bits after the binary point.         *)
(***************************************************************************)
\* bits of the significand of a double
Mantissa == 53

RECURSIVE BitLen(_)
BitLen(n) == IF n = 0 THEN 0 ELSE 1 + BitLen(n \div 2)

\* zero bits between the binary point and the first one bit of r/h, 0 < r < h
RECURSIVE LeadZeros(_, _)
LeadZeros(r, h) == IF 2 * r >= h THEN 0 ELSE 1 + LeadZeros(2 * r, h)

\* 2^k modulo h, by repeated squaring
RECURSIVE Pow2Mod(_, _)
Pow2Mod(k, h) ==
    IF k = 0 THEN 1 % h
    ELSE LET half == Pow2Mod(k \div 2, h)
         IN  (half * half * (IF k % 2 = 1 THEN 2 ELSE 1)) % h

\* what is left of r/h after its first n bits, 0 <= r < h
FracRem(r, h, n) == (r * Pow2Mod(n, h)) % h

\* the first n bits after the binary point of r/h, 0 <= r < h
FracBits(r, h, n) == [k \in 1..n |-> (2 * FracRem(r, h, k - 1)) \div h]

\* b plus one unit in its last place
Inc(b) ==
    LET zeros == {k \in 1..Len(b) : b[k] = 0}
        last  == CHOOSE k \in zeros : \A j \in zeros : j <= k
    IN  IF zeros = {}
        THEN [bits |-> [k \in 1..Len(b) |-> 0], carry |-> 1]
        ELSE [bits |-> [k \in 1..Len(b) |->
                           IF k < last THEN b[k]
                           ELSE IF k = last THEN 1 ELSE 0],
              carry |-> 0]

\* ip.b rounded to n bits after the binary point, to nearest, ties to even;
\* rest says that non-zero bits follow b
RoundNearestEven(ip, b, n, rest) ==
    LET keep == SubSeq(b, 1, n)
        half == b[n + 1] = 1
        more == rest \/ \E k \in (n + 2)..Len(b) : b[k] = 1
        odd  == IF n = 0 THEN ip % 2 = 1 ELSE b[n] = 1
        r    == Inc(keep)
    IN  IF half /\ (more \/ odd)
        THEN [ip |-> ip + r.carry, fr |-> r.bits]
        ELSE [ip |-> ip, fr |-> keep]

\* the double width / height of two positive integers
FloatDiv(width, height) ==
    LET ip == width \div height
        r  == width % height
        n  == IF ip > 0 THEN Mantissa - BitLen(ip)
              ELSE IF r = 0 THEN Mantissa
              ELSE LeadZeros(r, height) + Mantissa
    IN  RoundNearestEven(ip, FracBits(r, height, n + 1), n,
                         FracRem(r, height, n + 1) # 0)

\* the double abs(q - 1.0) of a positive double q
FloatAbsMinusOne(q) ==
    IF q.ip >= 1 THEN [ip |-> q.ip - 1, fr |-> q.fr]
    ELSE LET c == Inc([k \in 1..Len(q.fr) |-> 1 - q.fr[k]]).bits
         IN  IF Len(c) <= Mantissa THEN [ip |-> 0, fr |-> c]
             ELSE RoundNearestEven(0, c, Mantissa, FALSE)

Bit(f, k) == IF k <= Len(f) THEN f[k] ELSE 0

\* a <= b on doubles
FloatLeq(a, b) ==
    \/ a.ip < b.ip
    \/ /\ a.ip = b.ip
       /\ \A k \in 1..Max(Len(a.fr), Len(b.fr)) :
             Bit(a.fr, k) > Bit(b.fr, k)
                 => \E j \in 1..(k - 1) : Bit(a.fr, j) # Bit(b.fr, j)

\* the integer written by bits lo..hi of f, bits past its end being zero
RECURSIVE BitsValue(_, _, _)
BitsValue(f, lo, hi) ==
    IF hi < lo THEN 0 ELSE 2 * BitsValue(f, lo, hi - 1) + Bit(f, hi)

\* f is cut into limbs of ten bits; the value of limb t
LimbValue(f, t) == BitsValue(f, 10 * (t - 1) + 1, 10 * t)

Limbs(f) == (Len(f) + 9) \div 10

\* what w * 0.f carries out of the limbs after limb t into limb t
RECURSIVE LimbCarry(_, _, _)
LimbCarry(w, f, t) ==
    IF t >= Limbs(f) THEN 0
    ELSE (w * LimbValue(f, t + 1) + LimbCarry(w, f, t + 1)) \div 2^10

\* f without the zero bits at its end
Trim(f) ==
    LET ones == {k \in 1..Len(f) : f[k] = 1}
        last == CHOOSE k \in ones : \A j \in ones : j <= k
    IN  IF ones = {} THEN <<>> ELSE SubSeq(f, 1, last)

\* the product of the integer w and the double q, before rounding
ExactProduct(w, q) ==
    LET f    == Trim(q.fr)
        prod == [t \in 1..Limbs(f) |->
                    (w * LimbValue(f, t) + LimbCarry(w, f, t)) % 2^10]
    IN  [ip |-> w * q.ip + LimbCarry(w, f, 0),
         fr |-> [i \in 1..(10 * Limbs(f)) |->
                   LET t == ((i - 1) \div 10) + 1
                       j == ((i - 1) % 10) + 1
                   IN  (prod[t] \div 2^(10 - j)) % 2]]

\* x rounded to a double
RoundToDouble(x) ==
    LET ones  == {k \in 1..Len(x.fr) : x.fr[k] = 1}
        first == CHOOSE k \in ones : \A j \in ones : k <= j
        n     == IF x.ip > 0 THEN Mantissa - BitLen(x.ip)
                 ELSE IF ones = {} THEN Mantissa
                 ELSE first - 1 + Mantissa
    IN  IF Len(x.fr) <= n THEN x
        ELSE RoundNearestEven(x.ip, x.fr, n, FALSE)

\* the double w * q of an int w >= 0 and a double q >= 0
FloatMul(w, q) == RoundToDouble(ExactProduct(w, q))

\* int(x) of a double x >= 0
FloatInt(x) == x.ip

\* the double a factor stands for
FloatOf(factor) == FloatDiv(factor.num, factor.den)

calculate_aspect_ratio_diff(width, height) ==
    LET aspect_ratio == FloatDiv(width, height)
    IN  FloatAbsMinusOne(aspect_ratio)

(***************************************************************************)
(* Orientation and the strategy ladder.                                    *)
(***************************************************************************)
is_portrait(paths, i) == paths[i].h > paths[i].w

is_landscape(paths, i) == paths[i].w > paths[i].h

Indices(paths) == [k \in 1..Len(paths) |-> k]

\* [img for img in image_paths if is_portrait(img)], as positions
PortraitList(paths) ==
    SelectSeq(Indices(paths), LAMBDA i : is_portrait(paths, i))

LandscapeList(paths) ==
    SelectSeq(Indices(paths), LAMBDA i : is_landscape(paths, i))

\* every image that is no portrait taken for a square
SquareList_not_portrait(paths) ==
    SelectSeq(Indices(paths), LAMBDA i : ~is_portrait(paths, i))

SquareList(paths) ==
    SelectSeq(Indices(paths),
              LAMBDA i : ~is_portrait(paths, i) /\ ~is_landscape(paths, i))

\* the ladder without its mixed rung
Strategy_no_mixed(np, nl) ==
    IF nl = 4 THEN "all_landscape"
    ELSE IF np = 4 THEN "all_portrait"
    ELSE IF np >= 3 THEN "three_portrait"
    ELSE IF nl >= 3 THEN "three_landscape"
    ELSE "grid"

\* the ladder with the three-of-a-kind tests ahead of the four-of-a-kind ones
Strategy_reordered(np, nl) ==
    IF np >= 2 /\ nl >= 2 THEN "mixed"
    ELSE IF np >= 3 THEN "three_portrait"
    ELSE IF nl >= 3 THEN "three_landscape"
    ELSE IF nl = 4 THEN "all_landscape"
    ELSE IF np = 4 THEN "all_portrait"
    ELSE "grid"

\* the if/elif ladder of create_composite_image on the two list lengths
Strategy(np, nl) ==
    IF nl = 4 THEN "all_landscape"
    ELSE IF np = 4 THEN "all_portrait"
    ELSE IF np >= 2 /\ nl >= 2 THEN "mixed"
    ELSE IF np >= 3 THEN "three_portrait"
    ELSE IF nl >= 3 THEN "three_landscape"
    ELSE "grid"

(***************************************************************************)
(* The record of what a run did: every join made, every choice taken.      *)
(***************************************************************************)
JoinRec(dir, via, a, b, out) ==
    [dir |-> dir, via |-> via, a |-> a, b |-> b, out |-> out]

ChoiceRec(option1, option2, kept) ==
    [vertical |-> option1, horizontal |-> option2, kept |-> kept]

Arrangement(final, js, cs) == [final |-> final, joins |-> js, choices |-> cs]

\* final_image = option1 if diff1 <= diff2 else option2
PickSquarest(option1, option2) ==
    LET diff1 == calculate_aspect_ratio_diff(option1.w, option1.h)
        diff2 == calculate_aspect_ratio_diff(option2.w, option2.h)
    IN  IF FloatLeq(diff1, diff2) THEN option1 ELSE option2

\* both candidates of a pair of blocks, and the one kept
TryBoth(a, b) ==
    LET option1 == join_pil_images_vertically(a, b)
        option2 == join_pil_images_horizontally(a, b)
        kept    == PickSquarest(option1, option2)
    IN  Arrangement(kept,
                    <<JoinRec("V", "pil", a, b, option1),
                      JoinRec("H", "pil", a, b, option2)>>,
                    <<ChoiceRec(option1, option2, kept)>>)

PathJoinH(paths, i, j) ==
    JoinRec("H", "path", ImageOpen(paths, i), ImageOpen(paths, j),
            join_images_horizontally(paths, i, j))

PathJoinV(paths, i, j) ==
    JoinRec("V", "path", ImageOpen(paths, i), ImageOpen(paths, j),
            join_images_vertically(paths, i, j))

\* the four landscapes laid out as the four portraits are
FourLandscape_as_rows(paths, L) ==
    LET top_pair    == PathJoinH(paths, L[1], L[2])
        bottom_pair == PathJoinH(paths, L[3], L[4])
        final       == join_pil_images_vertically(top_pair.out,
                                                  bottom_pair.out)
    IN  Arrangement(final,
                    <<top_pair, bottom_pair,
                      JoinRec("V", "pil", top_pair.out, bottom_pair.out,
                              final)>>,
                    <<>>)

FourLandscape(paths, L) ==
    LET left_pair  == PathJoinV(paths, L[1], L[2])
        right_pair == PathJoinV(paths, L[3], L[4])
        final      == join_pil_images_horizontally(left_pair.out,
                                                   right_pair.out)
    IN  Arrangement(final,
                    <<left_pair, right_pair,
                      JoinRec("H", "pil", left_pair.out, right_pair.out,
                              final)>>,
                    <<>>)

FourPortrait(paths, P) ==
    LET top_pair    == PathJoinH(paths, P[1], P[2])
        bottom_pair == PathJoinH(paths, P[3], P[4])
        final       == join_pil_images_vertically(top_pair.out,
                                                  bottom_pair.out)
    IN  Arrangement(final,
                    <<top_pair, bottom_pair,
                      JoinRec("V", "pil", top_pair.out, bottom_pair.out,
                              final)>>,
                    <<>>)

Mixed(paths, P, L) ==
    LET portrait_combined  == PathJoinH(paths, P[1], P[2])
        landscape_combined == PathJoinV(paths, L[1], L[2])
        both == TryBoth(portrait_combined.out, landscape_combined.out)
    IN  Arrangement(both.final,
                    <<portrait_combined, landscape_combined>> \o both.joins,
                    both.choices)

\* the fourth image is image_paths[3] of the source: position 4 here
AddFourth(paths, first) ==
    IF Len(paths) > 3
    THEN LET fourth_img == ImageOpen(paths, 4)
             second     == TryBoth(first.final, fourth_img)
         IN  Arrangement(second.final, first.joins \o second.joins,
                         first.choices \o second.choices)
    ELSE first

ThreePortrait(paths, P) ==
    LET portrait_pair == PathJoinH(paths, P[1], P[2])
        remaining_img == ImageOpen(paths, P[3])
        both  == TryBoth(portrait_pair.out, remaining_img)
        first == Arrangement(both.final, <<portrait_pair>> \o both.joins,
                             both.choices)
    IN  AddFourth(paths, first)

ThreeLandscape(paths, L) ==
    LET landscape_pair == PathJoinV(paths, L[1], L[2])
        remaining_img  == ImageOpen(paths, L[3])
        both  == TryBoth(landscape_pair.out, remaining_img)
        first == Arrangement(both.final, <<landscape_pair>> \o both.joins,
                             both.choices)
    IN  AddFourth(paths, first)

Grid(paths) ==
    LET top_row    == PathJoinH(paths, 1, 2)
        bottom_row == PathJoinH(paths, 3, 4)
        final      == join_pil_images_vertically(top_row.out, bottom_row.out)
    IN  Arrangement(final,
                    <<top_row, bottom_row,
                      JoinRec("V", "pil", top_row.out, bottom_row.out,
                              final)>>,
                    <<>>)

(***************************************************************************)
(* Validation, scaling.                                                    *)
(***************************************************************************)
\* the checks without the one on the factor
ValidationError_no_factor(paths, factor) ==
    IF Len(paths) # 4 THEN "count"
    ELSE IF \E i \in 1..Len(paths) : ~isfile(paths[i]) THEN "missing"
    ELSE "none"

\* the three checks at the head of create_composite_image, in their order
ValidationError(paths, factor) ==
    IF Len(paths) # 4 THEN "count"
    ELSE IF factor.num <= 0 \/ factor.num > factor.den THEN "factor"
    ELSE IF \E i \in 1..Len(paths) : ~isfile(paths[i]) THEN "missing"
    ELSE "none"

\* (int(original_width * downscale_factor),
\*  int(original_height * downscale_factor))
ScaledSize(original_width, original_height, factor) ==
    LET q == FloatOf(factor)
    IN  [w |-> FloatInt(FloatMul(original_width, q)),
         h |-> FloatInt(FloatMul(original_height, q))]

\* downscale_factor < 1.0: the double nearest num / den is below 1.0 exactly
\* when num < den
BelowOne(factor) == factor.num < factor.den

\* Image.resize((new_width, new_height), LANCZOS), new_width, new_height > 0
resize(new_width, new_height) ==
    [w |-> new_width, h |-> new_height,
     layers |-> <<Rect(Resampled, 0, 0, new_width, new_height, 0, 0)>>]

NoSize == [w |-> 0, h |-> 0]

(***************************************************************************)
(* Output paths and save_optimized_image.  A path is a sequence of tokens: *)
(* the separator, the dot, and words, a word being a longest run of other  *)
(* characters, so that no two words stand side by side.                    *)
(***************************************************************************)
Sep == "/"
Dot == "."
Words == {"a", "png", "PNG", "jpg", "jpeg", "JPEG", "txt"}
Tokens == Words \cup {Sep, Dot}

Paths(n) ==
    {p \in UNION {[1..k -> Tokens] : k \in 1..n} :
        \A i \in 1..(Len(p) - 1) : ~(p[i] \in Words /\ p[i + 1] \in Words)}

\* str.lower on one token
LowerToken(t) ==
    IF t = "PNG" THEN "png" ELSE IF t = "JPEG" THEN "jpeg" ELSE t

\* str.lower
lower(p) == [i \in 1..Len(p) |-> LowerToken(p[i])]

\* str.rfind of a one-character string, counting from 1; 0 when absent
rfind(p, t) ==
    LET at == {i \in 1..Len(p) : p[i] = t}
    IN  IF at = {} THEN 0 ELSE CHOOSE i \in at : \A j \in at : j <= i

\* os.path.splitext: the extension starts at the last dot of the last
\* component, unless only dots stand before it in that component
splitext(p) ==
    LET sepIndex == rfind(p, Sep)
        dotIndex == rfind(p, Dot)
    IN  IF /\ dotIndex > sepIndex
           /\ \E i \in (sepIndex + 1)..(dotIndex - 1) : p[i] # Dot
        THEN [root |-> SubSeq(p, 1, dotIndex - 1),
              ext  |-> SubSeq(p, dotIndex, Len(p))]
        ELSE [root |-> p, ext |-> <<>>]

\* str.endswith(('.png', '.jpg', '.jpeg'))
endswith_image_suffix(p) ==
    /\ Len(p) >= 2
    /\ p[Len(p) - 1] = Dot
    /\ p[Len(p)] \in {"png", "jpg", "jpeg"}

SavedFile(path, format, setting) ==
    [path |-> path, format |-> format, setting |-> setting]

NoFile == SavedFile(<<>>, "none", "none")

PngSettings == [optimize |-> TRUE, compress_level |-> 6]
JpegSettings == [optimize |-> TRUE, quality |-> 85]

\* the file save_optimized_image(image, output_path) writes
save_optimized_image(path) ==
    LET ext == lower(splitext(path).ext)
    IN  IF ext = <<Dot, "png">> THEN SavedFile(path, "PNG", PngSettings)
        ELSE IF ext \in {<<Dot, "jpg">>, <<Dot, "jpeg">>}
             THEN SavedFile(path, "JPEG", JpegSettings)
        ELSE IF ~endswith_image_suffix(lower(path))
             THEN SavedFile(splitext(path).root \o <<Dot, "png">>, "PNG",
                            PngSettings)
        ELSE SavedFile(path, "PNG", PngSettings)

\* the output path of the runs that are not about the path
DefaultPath == <<"a", Dot, "png">>

(***************************************************************************)
(* The state machine.  pc is the position of the run:                      *)
(*   start      nothing has run                                            *)
(*   called     create_composite_image has been entered                    *)
(*   validated  the count, factor and existence checks have passed         *)
(*   classified the three orientation lists are built                      *)
(*   arranged   final_image is the composite of the chosen strategy        *)
(*   scaled     the downscale step is over                                 *)
(*   saved      the output file is written and the function has returned   *)
(*   raised     create_composite_image has raised                          *)
(*   exited     the command line process has exited                        *)
(***************************************************************************)
NoExit == 0 - 1

Fresh ==
    /\ pc = "start"
    /\ caller = "none"
    /\ portrait_images = <<>>
    /\ landscape_images = <<>>
    /\ square_images = <<>>
    /\ strategy = "none"
    /\ final_image = NoImage
    /\ joins = <<>>
    /\ choices = <<>>
    /\ opened = FALSE
    /\ target = NoSize
    /\ written = NoSize
    /\ error = "none"
    /\ exit_code = NoExit
    /\ err_stream = "none"
    /\ saved = NoFile

NoCount == 0 - 1

\* the front end's script has not run: no counts, no messages, nothing shown
AppIdle(state) ==
    /\ app_pc = state
    /\ temp_files = {}
    /\ portrait_count = NoCount
    /\ landscape_count = NoCount
    /\ square_count = NoCount
    /\ message = <<>>
    /\ shown = "none"

\* a run from the command line or of the function alone: no front end
AppOff ==
    /\ uploaded_files = <<>>
    /\ AppIdle("off")

\* lists of the wrong length hold missing files, unreadable files and
\* images of one pixel
WrongCountLists == UNION {[1..n -> Files(1)] : n \in Counts \ {4}}

Init ==
    /\ image_paths \in [1..4 -> Files(MaxDim)] \cup WrongCountLists
    /\ downscale_factor \in Factors
    /\ Fresh
    /\ output_path = DefaultPath
    /\ AppOff

\* argparse: images has nargs=4, so any other number of image arguments ends
\* the process in parse_args with status 2 and a usage message on stderr
CliUsage ==
    /\ pc = "start"
    /\ Len(image_paths) # 4
    /\ pc' = "exited"
    /\ caller' = "cli"
    /\ error' = "usage"
    /\ exit_code' = 2
    /\ err_stream' = "stderr"
    /\ UNCHANGED <<saveVars, appVars, image_paths, downscale_factor, portrait_images,
                   landscape_images, square_images, strategy, final_image,
                   joins, choices, opened, target, written>>

\* main() calls create_composite_image(args.images, args.output, args.downscale)
CliCall ==
    /\ pc = "start"
    /\ Len(image_paths) = 4
    /\ pc' = "called"
    /\ caller' = "cli"
    /\ UNCHANGED <<saveVars, appVars, image_paths, downscale_factor, portrait_images,
                   landscape_images, square_images, strategy, final_image,
                   joins, choices, opened, target, written, error,
                   exit_code, err_stream>>

\* create_composite_image called as a function, as the front end does
DirectCall ==
    /\ pc = "start"
    /\ pc' = "called"
    /\ caller' = "api"
    /\ UNCHANGED <<saveVars, appVars, image_paths, downscale_factor, portrait_images,
                   landscape_images, square_images, strategy, final_image,
                   joins, choices, opened, target, written, error,
                   exit_code, err_stream>>

ValidateFail ==
    /\ pc = "called"
    /\ ValidationError(image_paths, downscale_factor) # "none"
    /\ error' = ValidationError(image_paths, downscale_factor)
    /\ pc' = "raised"
    /\ UNCHANGED <<saveVars, appVars, caller, image_paths, downscale_factor, portrait_images,
                   landscape_images, square_images, strategy, final_image,
                   joins, choices, opened, target, written, exit_code,
                   err_stream>>

ValidateOk ==
    /\ pc = "called"
    /\ ValidationError(image_paths, downscale_factor) = "none"
    /\ pc' = "validated"
    /\ UNCHANGED <<saveVars, appVars, caller, image_paths, downscale_factor, portrait_images,
                   landscape_images, square_images, strategy, final_image,
                   joins, choices, opened, target, written, error,
                   exit_code, err_stream>>

\* Image.open in is_portrait raises on a file that is no image
ClassifyFail ==
    /\ pc = "validated"
    /\ \E i \in 1..Len(image_paths) : image_paths[i].kind = "corrupt"
    /\ opened' = TRUE
    /\ error' = "decode"
    /\ pc' = "raised"
    /\ UNCHANGED <<saveVars, appVars, caller, image_paths, downscale_factor, portrait_images,
                   landscape_images, square_images, strategy, final_image,
                   joins, choices, target, written, exit_code, err_stream>>

ClassifyOk ==
    /\ pc = "validated"
    /\ \A i \in 1..Len(image_paths) : image_paths[i].kind = "image"
    /\ opened' = TRUE
    /\ portrait_images' = PortraitList(image_paths)
    /\ landscape_images' = LandscapeList(image_paths)
    /\ square_images' = SquareList(image_paths)
    /\ pc' = "classified"
    /\ UNCHANGED <<saveVars, appVars, caller, image_paths, downscale_factor, strategy,
                   final_image, joins, choices, target, written, error,
                   exit_code, err_stream>>

\* the branch of the ladder that is taken
Branch == Strategy(Len(portrait_images), Len(landscape_images))

\* one branch of the ladder has run and left its result in final_image
Arranged(r) ==
    /\ strategy' = Branch
    /\ final_image' = r.final
    /\ joins' = joins \o r.joins
    /\ choices' = choices \o r.choices
    /\ pc' = "arranged"
    /\ UNCHANGED <<saveVars, appVars, caller, image_paths, downscale_factor, portrait_images,
                   landscape_images, square_images, opened, target, written,
                   error, exit_code, err_stream>>

ArrangeFourLandscape ==
    /\ pc = "classified"
    /\ Branch = "all_landscape"
    /\ Arranged(FourLandscape(image_paths, landscape_images))

ArrangeFourPortrait ==
    /\ pc = "classified"
    /\ Branch = "all_portrait"
    /\ Arranged(FourPortrait(image_paths, portrait_images))

ArrangeMixed ==
    /\ pc = "classified"
    /\ Branch = "mixed"
    /\ Arranged(Mixed(image_paths, portrait_images, landscape_images))

ArrangeThreePortrait ==
    /\ pc = "classified"
    /\ Branch = "three_portrait"
    /\ Arranged(ThreePortrait(image_paths, portrait_images))

ArrangeThreeLandscape ==
    /\ pc = "classified"
    /\ Branch = "three_landscape"
    /\ Arranged(ThreeLandscape(image_paths, landscape_images))

ArrangeGrid ==
    /\ pc = "classified"
    /\ Branch = "grid"
    /\ Arranged(Grid(image_paths))

\* downscale_factor < 1.0 and resize accepts the new size
Downscale ==
    /\ pc = "arranged"
    /\ BelowOne(downscale_factor)
    /\ target' = ScaledSize(final_image.w, final_image.h, downscale_factor)
    /\ target'.w >= 1 /\ target'.h >= 1
    /\ final_image' = resize(target'.w, target'.h)
    /\ pc' = "scaled"
    /\ UNCHANGED <<saveVars, appVars, caller, image_paths, downscale_factor, portrait_images,
                   landscape_images, square_images, strategy, joins, choices,
                   opened, written, error, exit_code, err_stream>>

\* downscale_factor < 1.0 and the new size has a zero: Image.resize raises
\* ValueError("height and width must be > 0")
DownscaleRejected ==
    /\ pc = "arranged"
    /\ BelowOne(downscale_factor)
    /\ target' = ScaledSize(final_image.w, final_image.h, downscale_factor)
    /\ target'.w < 1 \/ target'.h < 1
    /\ error' = "resize"
    /\ pc' = "raised"
    /\ UNCHANGED <<saveVars, appVars, caller, image_paths, downscale_factor, portrait_images,
                   landscape_images, square_images, strategy, final_image,
                   joins, choices, opened, written, exit_code, err_stream>>

SkipDownscale ==
    /\ pc = "arranged"
    /\ ~BelowOne(downscale_factor)
    /\ pc' = "scaled"
    /\ UNCHANGED <<saveVars, appVars, caller, image_paths, downscale_factor, portrait_images,
                   landscape_images, square_images, strategy, final_image,
                   joins, choices, opened, target, written, error, exit_code,
                   err_stream>>

\* save_optimized_image(final_image, output_path), then the function returns
Save ==
    /\ pc = "scaled"
    /\ written' = [w |-> final_image.w, h |-> final_image.h]
    /\ saved' = save_optimized_image(output_path)
    /\ pc' = "saved"
    /\ UNCHANGED <<output_path, appVars, caller, image_paths, downscale_factor, portrait_images,
                   landscape_images, square_images, strategy, final_image,
                   joins, choices, opened, target, error, exit_code,
                   err_stream>>

\* main() falls off its end: status 0
CliExitOk ==
    /\ pc = "saved"
    /\ caller = "cli"
    /\ exit_code' = 0
    /\ pc' = "exited"
    /\ UNCHANGED <<saveVars, appVars, caller, image_paths, downscale_factor, portrait_images,
                   landscape_images, square_images, strategy, final_image,
                   joins, choices, opened, target, written, error,
                   err_stream>>

\* except Exception as e: print(f"Error: {e}"); sys.exit(1)
CliCatch ==
    /\ pc = "raised"
    /\ caller = "cli"
    /\ err_stream' = "stdout"
    /\ exit_code' = 1
    /\ pc' = "exited"
    /\ UNCHANGED <<saveVars, appVars, caller, image_paths, downscale_factor, portrait_images,
                   landscape_images, square_images, strategy, final_image,
                   joins, choices, opened, target, written, error>>

Next ==
    \/ CliUsage
    \/ CliCall
    \/ DirectCall
    \/ ValidateFail
    \/ ValidateOk
    \/ ClassifyFail
    \/ ClassifyOk
    \/ ArrangeFourLandscape
    \/ ArrangeFourPortrait
    \/ ArrangeMixed
    \/ ArrangeThreePortrait
    \/ ArrangeThreeLandscape
    \/ ArrangeGrid
    \/ Downscale
    \/ DownscaleRejected
    \/ SkipDownscale
    \/ Save
    \/ CliExitOk
    \/ CliCatch

Spec == Init /\ [][Next]_vars

(***************************************************************************)
(* The arrangement alone: four readable images of up to ArrDim pixels a    *)
(* side, joined and saved at full size by a direct call.                   *)
(***************************************************************************)
InitArrange ==
    /\ image_paths \in [1..4 -> ImageFiles(ArrDim)]
    /\ downscale_factor = DefaultFactor
    /\ Fresh
    /\ output_path = DefaultPath
    /\ AppOff

NextArrange ==
    \/ DirectCall
    \/ ValidateOk
    \/ ClassifyOk
    \/ ArrangeFourLandscape
    \/ ArrangeFourPortrait
    \/ ArrangeMixed
    \/ ArrangeThreePortrait
    \/ ArrangeThreeLandscape
    \/ ArrangeGrid
    \/ SkipDownscale
    \/ Save

SpecArrange == InitArrange /\ [][NextArrange]_vars

(***************************************************************************)
(* The arrangement on larger images: four readable images of up to WideDim *)
(* pixels a side, the first two of one shape.                              *)
(***************************************************************************)
InitWide ==
    /\ image_paths \in {f \in [1..4 -> ImageFiles(WideDim)] : f[1] = f[2]}
    /\ downscale_factor = DefaultFactor
    /\ Fresh
    /\ output_path = DefaultPath
    /\ AppOff

SpecWide == InitWide /\ [][NextArrange]_vars

(***************************************************************************)
(* The downscale step on larger composites: four readable images of one    *)
(* shape, up to MaxDim pixels wide and ScaleDim pixels high, and a factor   *)
(* in tenths.                                                              *)
(***************************************************************************)
InitScale ==
    /\ \E w \in 1..MaxDim : \E h \in 1..ScaleDim :
          image_paths = [i \in 1..4 |-> ImageFile(w, h)]
    /\ downscale_factor \in Tenths
    /\ Fresh
    /\ output_path = DefaultPath
    /\ AppOff

NextScale ==
    \/ DirectCall
    \/ ValidateOk
    \/ ClassifyOk
    \/ ArrangeFourLandscape
    \/ ArrangeFourPortrait
    \/ ArrangeGrid
    \/ Downscale
    \/ DownscaleRejected
    \/ SkipDownscale
    \/ Save

SpecScale == InitScale /\ [][NextScale]_vars

(***************************************************************************)
(* The front end, composite_image_app.py: one run of its script on the     *)
(* files uploaded so far.  app_pc is the position of the run:              *)
(*   start    the script has not looked at the uploads                     *)
(*   stored   the four uploads are saved in the temporary directory        *)
(*   ready    the orientations are counted, the button is on the page      *)
(*   running  the button was pressed, create_composite_image is running    *)
(*   crashed  an exception left the script                                 *)
(*   done     the script has run to its end                                *)
(***************************************************************************)
Upload(name, file) == [name |-> name, file |-> file]

\* the names of four uploads: all different, or the first two alike
NamePatterns == {<<1, 2, 3, 4>>, <<1, 1, 2, 3>>}

\* values of the slider, 0.25 to 1.0 in steps of 0.05: its two ends
Slider == {Factor(5, 20), Factor(20, 20)}

\* what the uploader can hold: up to five files, readable or not
UploadLists ==
    {[i \in 1..4 |-> Upload(n[i], f[i])] :
        n \in NamePatterns, f \in [1..4 -> ImageFiles(MaxDim) \cup {Corrupt}]}
    \cup UNION {{[i \in 1..k |-> Upload(i, f[i])] :
                    f \in [1..k -> {ImageFile(1, 1), Corrupt}]} :
                k \in {0, 1, 2, 3, 5}}

\* the uploads of more than four files let through
UploadCheck_at_most_four(uploads) ==
    IF Len(uploads) = 0 THEN "empty"
    ELSE IF Len(uploads) > 4 THEN "mismatch"
    ELSE "ok"

\* if uploaded_files: if len(uploaded_files) != 4: ... return
UploadCheck(uploads) ==
    IF Len(uploads) = 0 THEN "empty"
    ELSE IF Len(uploads) # 4 THEN "mismatch"
    ELSE "ok"

\* the files found at image_paths once every upload is saved under its
\* name: a later upload overwrites an earlier one of the same name
SavedUploads(uploads) ==
    [i \in 1..Len(uploads) |->
        LET same == {j \in 1..Len(uploads) : uploads[j].name = uploads[i].name}
            last == CHOOSE j \in same : \A k \in same : k <= j
        IN  uploads[last].file]

\* os.path.join(temp_dir, "composite_output.png")
AppOutputPath == <<Sep, "composite_output", Dot, "png">>

\* the display ladder whose mixed rung asks for one pair only
DisplayStrategy_either_pair(np, nl) ==
    IF nl = 4 THEN "all_landscape"
    ELSE IF np = 4 THEN "all_portrait"
    ELSE IF np >= 2 \/ nl >= 2 THEN "mixed"
    ELSE IF np >= 3 THEN "three_portrait"
    ELSE IF nl >= 3 THEN "three_landscape"
    ELSE "grid"

\* the strategy named under "Arrangement Strategy Used"
DisplayStrategy(np, nl) ==
    IF nl = 4 THEN "all_landscape"
    ELSE IF np = 4 THEN "all_portrait"
    ELSE IF np >= 2 /\ nl >= 2 THEN "mixed"
    ELSE IF np >= 3 THEN "three_portrait"
    ELSE IF nl >= 3 THEN "three_landscape"
    ELSE "grid"

coreVars == <<pc, caller, image_paths, downscale_factor,
              portrait_images, landscape_images, square_images,
              strategy, final_image, joins, choices, opened,
              target, written, error, exit_code, err_stream>>

\* no upload: st.info asks for four images
AppPrompt ==
    /\ app_pc = "start"
    /\ UploadCheck(uploaded_files) = "empty"
    /\ message' = Append(message, "info_upload")
    /\ app_pc' = "done"
    /\ UNCHANGED <<coreVars, saveVars, uploaded_files, temp_files,
                   portrait_count, landscape_count, square_count, shown>>

\* some uploads, but not four: st.error and return
AppRejectCount ==
    /\ app_pc = "start"
    /\ UploadCheck(uploaded_files) = "mismatch"
    /\ message' = Append(message, "error_count")
    /\ app_pc' = "done"
    /\ UNCHANGED <<coreVars, saveVars, uploaded_files, temp_files,
                   portrait_count, landscape_count, square_count, shown>>

\* st.success, then save_uploaded_file for every upload
AppSaveUploads ==
    /\ app_pc = "start"
    /\ UploadCheck(uploaded_files) = "ok"
    /\ message' = Append(message, "success_uploaded")
    /\ temp_files' = {uploaded_files[i].name : i \in 1..Len(uploaded_files)}
    /\ image_paths' = SavedUploads(uploaded_files)
    /\ app_pc' = "stored"
    /\ UNCHANGED <<pc, caller, downscale_factor, portrait_images,
                   landscape_images, square_images, strategy, final_image,
                   joins, choices, opened, target, written, error,
                   exit_code, err_stream, saveVars, uploaded_files,
                   portrait_count, landscape_count, square_count, shown>>

\* is_portrait raises on an upload that is no image, outside the try
AppCountFail ==
    /\ app_pc = "stored"
    /\ \E i \in 1..Len(image_paths) : image_paths[i].kind = "corrupt"
    /\ opened' = TRUE
    /\ app_pc' = "crashed"
    /\ UNCHANGED <<pc, caller, image_paths, downscale_factor,
                   portrait_images, landscape_images, square_images,
                   strategy, final_image, joins, choices, target, written,
                   error, exit_code, err_stream, saveVars, uploaded_files,
                   temp_files, portrait_count, landscape_count,
                   square_count, message, shown>>

\* portrait_count, landscape_count, square_count
AppCount ==
    /\ app_pc = "stored"
    /\ \A i \in 1..Len(image_paths) : image_paths[i].kind = "image"
    /\ opened' = TRUE
    /\ portrait_count' =
          Cardinality({i \in 1..Len(image_paths) : is_portrait(image_paths, i)})
    /\ landscape_count' =
          Cardinality({i \in 1..Len(image_paths) : is_landscape(image_paths, i)})
    /\ square_count' = 4 - portrait_count' - landscape_count'
    /\ app_pc' = "ready"
    /\ UNCHANGED <<pc, caller, image_paths, downscale_factor,
                   portrait_images, landscape_images, square_images,
                   strategy, final_image, joins, choices, target, written,
                   error, exit_code, err_stream, saveVars, uploaded_files,
                   temp_files, message, shown>>

\* the button is not pressed in this run
AppNoPress ==
    /\ app_pc = "ready"
    /\ app_pc' = "done"
    /\ UNCHANGED <<coreVars, saveVars, uploaded_files, temp_files,
                   portrait_count, landscape_count, square_count, message,
                   shown>>

\* the button is pressed:
\* create_composite_image(image_paths, output_path, downscale_factor)
AppPress ==
    /\ app_pc = "ready"
    /\ pc = "start"
    /\ output_path' = AppOutputPath
    /\ caller' = "app"
    /\ pc' = "called"
    /\ app_pc' = "running"
    /\ UNCHANGED <<image_paths, downscale_factor, portrait_images,
                   landscape_images, square_images, strategy, final_image,
                   joins, choices, opened, target, written, error,
                   exit_code, err_stream, saved, uploaded_files, temp_files,
                   portrait_count, landscape_count, square_count, message,
                   shown>>

\* the call returned: st.success, the image, and the arrangement details
AppDisplay ==
    /\ app_pc = "running"
    /\ pc = "saved"
    /\ message' = Append(message, "success_created")
    /\ shown' = DisplayStrategy(portrait_count, landscape_count)
    /\ app_pc' = "done"
    /\ UNCHANGED <<coreVars, saveVars, uploaded_files, temp_files,
                   portrait_count, landscape_count, square_count>>

\* except Exception as e: st.error
AppCatch ==
    /\ app_pc = "running"
    /\ pc = "raised"
    /\ message' = Append(message, "error_creating")
    /\ app_pc' = "done"
    /\ UNCHANGED <<coreVars, saveVars, uploaded_files, temp_files,
                   portrait_count, landscape_count, square_count, shown>>

InitApp ==
    /\ uploaded_files \in UploadLists
    /\ AppIdle("start")
    /\ image_paths = <<>>
    /\ downscale_factor \in Slider
    /\ Fresh
    /\ output_path = <<>>

NextApp ==
    \/ AppPrompt
    \/ AppRejectCount
    \/ AppSaveUploads
    \/ AppCountFail
    \/ AppCount
    \/ AppNoPress
    \/ AppPress
    \/ ValidateOk
    \/ ClassifyOk
    \/ ArrangeFourLandscape
    \/ ArrangeFourPortrait
    \/ ArrangeMixed
    \/ ArrangeThreePortrait
    \/ ArrangeThreeLandscape
    \/ ArrangeGrid
    \/ Downscale
    \/ DownscaleRejected
    \/ SkipDownscale
    \/ Save
    \/ AppDisplay
    \/ AppCatch

SpecApp == InitApp /\ [][NextApp]_vars

(***************************************************************************)
(* The save step on every output path of up to MaxPath tokens: four images *)
(* of one pixel, laid out as the grid and saved at full size.              *)
(***************************************************************************)
InitSave ==
    /\ image_paths = [i \in 1..4 |-> ImageFile(1, 1)]
    /\ downscale_factor = DefaultFactor
    /\ Fresh
    /\ output_path \in Paths(MaxPath)
    /\ AppOff

NextSave ==
    \/ DirectCall
    \/ ValidateOk
    \/ ClassifyOk
    \/ ArrangeGrid
    \/ SkipDownscale
    \/ Save

SpecSave == InitSave /\ [][NextSave]_vars

(***************************************************************************)
(* Properties.                                                             *)
(***************************************************************************)
Label(f) ==
    IF f.h > f.w THEN "portrait"
    ELSE IF f.w > f.h THEN "landscape" ELSE "square"

Labelled(l) ==
    Cardinality({i \in 1..Len(image_paths) : Label(image_paths[i]) = l})

\* the precedence of the strategies, read off the four orientation labels
Precedence ==
    LET P == Labelled("portrait")
        L == Labelled("landscape")
    IN  CASE L = 4 -> "all_landscape"
          [] L # 4 /\ P = 4 -> "all_portrait"
          [] L # 4 /\ P # 4 /\ P >= 2 /\ L >= 2 -> "mixed"
          [] L # 4 /\ P # 4 /\ ~(P >= 2 /\ L >= 2) /\ P >= 3
                -> "three_portrait"
          [] L # 4 /\ P # 4 /\ ~(P >= 2 /\ L >= 2) /\ ~(P >= 3) /\ L >= 3
                -> "three_landscape"
          [] OTHER -> "grid"

\* the joins each strategy makes, in order
JoinsOf(s) ==
    CASE s = "all_landscape"   -> <<"V", "V", "H">>
      [] s = "all_portrait"    -> <<"H", "H", "V">>
      [] s = "mixed"           -> <<"H", "V", "V", "H">>
      [] s = "three_portrait"  -> <<"H", "V", "H", "V", "H">>
      [] s = "three_landscape" -> <<"V", "V", "H", "V", "H">>
      [] s = "grid"            -> <<"H", "H", "V">>

\* C1: for every four orientation labels one strategy runs, it is
\* the first match of the precedence all-landscape, all-portrait, mixed 2+2,
\* three-portrait, three-landscape, grid, and it is decided by the labels
\* alone: the joins made are those of that strategy.
C1_StrategyByPrecedence ==
    strategy # "none" =>
        /\ strategy = Precedence
        /\ [k \in 1..Len(joins) |-> joins[k].dir] = JoinsOf(strategy)

\* three landscapes and a square: rules 1 to 4 are passed over, rule 5 runs
C1_Witness ==
    /\ pc = "arranged"
    /\ strategy = "three_landscape"
    /\ Labelled("landscape") = 3
    /\ Labelled("square") = 1

\* C3: a horizontal join is as wide as both images together and as high as
\* the higher one, a vertical join as wide as the wider one and as high as
\* both together, for the joiners on paths and the joiners on images alike.
C3_JoinDimensions ==
    \A k \in 1..Len(joins) :
        LET j == joins[k]
        IN  IF j.dir = "H"
            THEN /\ j.out.w = j.a.w + j.b.w
                 /\ j.out.h >= j.a.h /\ j.out.h >= j.b.h
                 /\ j.out.h \in {j.a.h, j.b.h}
            ELSE /\ j.out.h = j.a.h + j.b.h
                 /\ j.out.w >= j.a.w /\ j.out.w >= j.b.w
                 /\ j.out.w \in {j.a.w, j.b.w}

\* all four joiners have run, each on two images that differ across the join
C3_Witness ==
    /\ pc = "arranged"
    /\ \A d \in {"H", "V"} : \A v \in {"path", "pil"} :
          \E k \in 1..Len(joins) :
              /\ joins[k].dir = d
              /\ joins[k].via = v
              /\ IF d = "H" THEN joins[k].a.h # joins[k].b.h
                 ELSE joins[k].a.w # joins[k].b.w

\* where the second image of join j is placed
OriginB(j) ==
    IF j.dir = "H" THEN [x |-> j.a.w, y |-> 0] ELSE [x |-> 0, y |-> j.a.h]

InRect(x, y, ox, oy, img) ==
    ox <= x /\ x < ox + img.w /\ oy <= y /\ y < oy + img.h

\* C4: joins never crop: the first image lies at (0, 0), the second at
\* (a.width, 0) or (0, a.height), both inside the canvas and apart from each
\* other, every pixel of both is in the result and every other pixel of the
\* canvas is white.
C4_JoinsPadNeverCrop ==
    pc = "arranged" =>
    \A k \in 1..Len(joins) :
        LET j == joins[k]
            o == OriginB(j)
        IN  /\ j.a.w <= j.out.w /\ j.a.h <= j.out.h
            /\ o.x + j.b.w <= j.out.w /\ o.y + j.b.h <= j.out.h
            /\ o.x >= j.a.w \/ o.y >= j.a.h
            /\ \A x \in 0..(j.out.w - 1) : \A y \in 0..(j.out.h - 1) :
                  Pixel(j.out, x, y) =
                      IF InRect(x, y, 0, 0, j.a) THEN Pixel(j.a, x, y)
                      ELSE IF InRect(x, y, o.x, o.y, j.b)
                           THEN Pixel(j.b, x - o.x, y - o.y)
                           ELSE <<"white">>

\* a composite whose joins all left white padding beside their shorter image
C4_Witness ==
    /\ pc = "arranged"
    /\ Len(joins) = 5
    /\ \A k \in 1..Len(joins) :
          joins[k].out.w * joins[k].out.h
              > joins[k].a.w * joins[k].a.h + joins[k].b.w * joins[k].b.h

\* C9: four landscapes at scale factor 1 are joined as the vertical pair of
\* images 0 and 1, the vertical pair of images 2 and 3, and the horizontal
\* join of the two, with no alternative built: the output is
\* max(w0, w1) + max(w2, w3) wide and max(h0 + h1, h2 + h3) high.
C9_FourLandscapeSize ==
    (strategy = "all_landscape" /\ pc = "saved"
        /\ downscale_factor.num = downscale_factor.den) =>
        LET f == image_paths
        IN  /\ written.w = Max(f[1].w, f[2].w) + Max(f[3].w, f[4].w)
            /\ written.h = Max(f[1].h + f[2].h, f[3].h + f[4].h)
            /\ choices = <<>>
            /\ Len(joins) = 3
            /\ joins[1].dir = "V" /\ joins[1].a = ImageOpen(f, 1)
            /\ joins[1].b = ImageOpen(f, 2)
            /\ joins[2].dir = "V" /\ joins[2].a = ImageOpen(f, 3)
            /\ joins[2].b = ImageOpen(f, 4)
            /\ joins[3].dir = "H" /\ joins[3].a = joins[1].out
            /\ joins[3].b = joins[2].out
            /\ final_image = joins[3].out

\* four landscapes of different sizes, the right pair the higher one
C9_Witness ==
    /\ strategy = "all_landscape" /\ pc = "saved"
    /\ downscale_factor.num = downscale_factor.den
    /\ image_paths[1].w < image_paths[2].w
    /\ image_paths[3].w > image_paths[4].w
    /\ image_paths[1].h + image_paths[2].h
          < image_paths[3].h + image_paths[4].h

Abs(n) == IF n < 0 THEN 0 - n ELSE n

\* |a.w / a.h - 1| <= |b.w / b.h - 1|, in exact arithmetic
NoFurtherFromSquare(a, b) == Abs(a.w - a.h) * b.h <= Abs(b.w - b.h) * a.h

\* C2: wherever a vertical and a horizontal candidate are compared, the one
\* kept is no further from square than the one dropped, and when both are
\* equally far from square the vertical one is kept.
C2_KeepsSquarestTiesVertical ==
    \A k \in 1..Len(choices) :
        LET c    == choices[k]
            drop == IF c.kept = c.vertical THEN c.horizontal ELSE c.vertical
        IN  /\ c.kept \in {c.vertical, c.horizontal}
            /\ NoFurtherFromSquare(c.kept, drop)
            /\ (NoFurtherFromSquare(c.vertical, c.horizontal)
                    /\ NoFurtherFromSquare(c.horizontal, c.vertical))
                  => c.kept = c.vertical

BadInput ==
    \/ Len(image_paths) # 4
    \/ downscale_factor.num <= 0
    \/ downscale_factor.num > downscale_factor.den
    \/ \E i \in 1..Len(image_paths) : image_paths[i].kind = "missing"

\* C5: a path list that is not four long, a factor that is not in (0, 1] or
\* a path that is no file makes create_composite_image raise an input error
\* before any image is opened, any join is made or any output is written.
C5_BadInputRejectedFirst ==
    BadInput =>
        /\ ~opened
        /\ joins = <<>>
        /\ final_image = NoImage
        /\ written = NoSize
        /\ pc \in {"start", "called", "raised", "exited"}
        /\ pc = "raised" => error \in {"count", "factor", "missing"}
        /\ (pc = "exited" /\ Len(image_paths) = 4) =>
              error \in {"count", "factor", "missing"}

\* four readable images and the factor 1.5: the call has raised
C5_Witness ==
    /\ pc = "raised"
    /\ caller = "api"
    /\ error = "factor"
    /\ downscale_factor = Factor(6, 4)
    /\ \A i \in 1..Len(image_paths) : image_paths[i].kind = "image"

GoodInput ==
    /\ Len(image_paths) = 4
    /\ \A i \in 1..Len(image_paths) :
          image_paths[i].kind = "image"
              /\ image_paths[i].w > 0 /\ image_paths[i].h > 0
    /\ downscale_factor.num > 0
    /\ downscale_factor.num <= downscale_factor.den

\* C6: for four images of positive size and a factor in (0, 1] the run gets
\* past the downscale step with a final image of positive width and height.
C6_OutputSizePositive ==
    (GoodInput /\ pc \in {"scaled", "saved", "raised", "exited"}) =>
        /\ error = "none"
        /\ final_image.w > 0
        /\ final_image.h > 0
        /\ downscale_factor.num < downscale_factor.den =>
              target.w > 0 /\ target.h > 0

\* how often input file i is painted into img
Placements(img, i) ==
    Cardinality({k \in 1..Len(img.layers) : img.layers[k].src = i})

\* C7: with exactly three portraits or exactly three landscapes each of the
\* four inputs, the odd one included, is placed exactly once in the
\* composite, wherever in the list the odd one stands.
C7_EveryInputPlacedOnce ==
    (pc = "arranged" /\ strategy \in {"three_portrait", "three_landscape"})
        => \A i \in 1..4 : Placements(final_image, i) = 1

\* the composite before the downscale step
Unscaled ==
    IF choices # <<>> THEN choices[Len(choices)].kept
    ELSE joins[Len(joins)].out

\* q = floor(x * num / den), the factor being num / den
IsFloorOfScaled(q, x) ==
    /\ downscale_factor.den * q <= x * downscale_factor.num
    /\ x * downscale_factor.num < downscale_factor.den * (q + 1)

\* C8: at factor 1 the downscale step leaves the image as it is; at a factor
\* below 1 the new width and height are the floors of width * factor and
\* height * factor, each from its own axis, and both are smaller than before.
C8_DownscaleFloors ==
    (strategy # "none" /\ pc # "arranged") =>
        IF downscale_factor.num = downscale_factor.den
        THEN final_image = Unscaled /\ target = NoSize
        ELSE /\ IsFloorOfScaled(target.w, Unscaled.w)
             /\ IsFloorOfScaled(target.h, Unscaled.h)
             /\ target.w < Unscaled.w
             /\ target.h < Unscaled.h
             /\ error = "none" =>
                   final_image.w = target.w /\ final_image.h = target.h

\* q = floor(x * d), d being the double nearest the factor
IsFloorOfScaledDouble(q, x) ==
    q = ExactProduct(x, FloatOf(downscale_factor)).ip

\* The statement of C8 with the factor read as the double the call is given
\* instead of the fraction it was written as.
DownscaleFloorsOfDouble ==
    (strategy # "none" /\ pc # "arranged"
        /\ downscale_factor.num < downscale_factor.den) =>
        /\ IsFloorOfScaledDouble(target.w, Unscaled.w)
        /\ IsFloorOfScaledDouble(target.h, Unscaled.h)

\* C10: the command line process exits with 0 when the composite was made
\* and with another status on every failure, and on every failure the error
\* message is on standard error.
C10_ExitStatusAndStderr ==
    pc = "exited" =>
        /\ exit_code = 0 <=> (error = "none" /\ written # NoSize)
        /\ error # "none" => exit_code # 0 /\ err_stream = "stderr"

\* the path cut at the last dot of its last component, leading dots or not
SuffixSplit(p) ==
    LET sepIndex == rfind(p, Sep)
        dotIndex == rfind(p, Dot)
    IN  IF dotIndex > sepIndex
        THEN [root |-> SubSeq(p, 1, dotIndex - 1),
              ext  |-> SubSeq(p, dotIndex, Len(p))]
        ELSE [root |-> p, ext |-> <<>>]

\* the file written is the one the extension parts.ext asks for
CodecFollows(parts) ==
    LET ext == lower(parts.ext)
    IN  IF ext = <<Dot, "png">>
        THEN saved.format = "PNG" /\ saved.path = output_path
        ELSE IF ext \in {<<Dot, "jpg">>, <<Dot, "jpeg">>}
        THEN /\ saved.format = "JPEG"
             /\ saved.setting = [optimize |-> TRUE, quality |-> 85]
             /\ saved.path = output_path
        ELSE /\ saved.format = "PNG"
             /\ saved.path = parts.root \o <<Dot, "png">>
             /\ saved.path # output_path

\* C12: the codec follows the extension of the output path whatever its
\* case: .png gives PNG, .jpg and .jpeg give JPEG at quality 85, anything
\* else gives PNG at the path with its extension replaced by .png, and the
\* original path is written only when its extension was recognised.  The
\* extension is read as os.path.splitext reads it or as the plain suffix.
C12_CodecFromExtension ==
    pc = "saved" =>
        CodecFollows(splitext(output_path))
            \/ CodecFollows(SuffixSplit(output_path))

\* C11: in the front end an upload set that is not four files never
\* reaches create_composite_image: nothing is saved to the temporary
\* directory, opened or classified, and when the set is not empty the run
\* ends with the count-mismatch error as its only message.
C11_WrongCountNotProcessed ==
    (app_pc # "off" /\ Len(uploaded_files) # 4) =>
        /\ pc = "start" /\ caller = "none"
        /\ temp_files = {}
        /\ image_paths = <<>>
        /\ ~opened
        /\ portrait_count = NoCount
        /\ landscape_count = NoCount
        /\ square_count = NoCount
        /\ saved = NoFile /\ written = NoSize
        /\ app_pc \in {"start", "done"}
        /\ app_pc = "done" =>
              message = IF Len(uploaded_files) = 0
                        THEN <<"info_upload">> ELSE <<"error_count">>

\* three uploads: the run has ended on the count-mismatch error
C11_Witness ==
    /\ Len(uploaded_files) = 3
    /\ app_pc = "done"
    /\ message = <<"error_count">>
    /\ pc = "start"

\* C15: the strategy the front end names under "Arrangement Strategy Used"
\* is the one create_composite_image ran on the same four files, and the
\* front end's three counts are the lengths of the core's three lists.
C15_ShownIsExecuted ==
    shown # "none" =>
        /\ shown = strategy
        /\ shown = Precedence
        /\ portrait_count = Len(portrait_images)
        /\ landscape_count = Len(landscape_images)
        /\ square_count = Len(square_images)

\* one portrait stands among three landscapes, the first two uploads share
\* a name, and the front end names the three-landscape strategy
C15_Witness ==
    /\ app_pc = "done"
    /\ shown = "three_landscape"
    /\ strategy = "three_landscape"
    /\ portrait_count = 1
    /\ uploaded_files[1].name = uploaded_files[2].name

\* the positions in list are those of the images with label l, in input order
ListsLabel(list, l) ==
    /\ \A k \in 1..(Len(list) - 1) : list[k] < list[k + 1]
    /\ {list[k] : k \in 1..Len(list)}
          = {i \in 1..Len(image_paths) : Label(image_paths[i]) = l}

Members(list) == {list[k] : k \in 1..Len(list)}

\* C13: every image is exactly one of portrait (height > width), landscape
\* (width > height) and square (width = height); the three lists of
\* create_composite_image hold the images of their label in input order, no
\* image is in two of them, and together they hold four.
C13_ClassificationPartitions ==
    pc \in {"classified", "arranged", "scaled", "saved"} =>
        /\ \A i \in 1..Len(image_paths) :
              LET f == image_paths[i]
              IN  Cardinality({c \in {"p", "l", "s"} :
                      \/ c = "p" /\ f.h > f.w
                      \/ c = "l" /\ f.w > f.h
                      \/ c = "s" /\ f.w = f.h}) = 1
        /\ ListsLabel(portrait_images, "portrait")
        /\ ListsLabel(landscape_images, "landscape")
        /\ ListsLabel(square_images, "square")
        /\ Members(portrait_images) \cap Members(landscape_images) = {}
        /\ Members(portrait_images) \cap Members(square_images) = {}
        /\ Members(landscape_images) \cap Members(square_images) = {}
        /\ Len(portrait_images) + Len(landscape_images)
              + Len(square_images) = 4

\* a square, a landscape, a portrait and a second landscape, in this order
C13_Witness ==
    /\ pc = "classified"
    /\ square_images = <<1>>
    /\ landscape_images = <<2, 4>>
    /\ portrait_images = <<3>>

\* C14 as stated: the generic grid covers the combination of exactly two
\* portraits and two landscapes, so that is the strategy such inputs get.
C14_GridCoversTwoAndTwo ==
    (pc = "arranged" /\ Labelled("portrait") = 2
        /\ Labelled("landscape") = 2) => strategy = "grid"

\* C14 as amended: exactly two portraits and two landscapes always get the
\* mixed 2+2 strategy, never the grid; the grid (images 1 and 2 in a row,
\* images 3 and 4 in a row, the rows stacked) runs only on inputs with a
\* square and at most two portraits and at most two landscapes.
C14_TwoAndTwoIsMixed ==
    pc = "arranged" =>
        /\ (Labelled("portrait") = 2 /\ Labelled("landscape") = 2)
              => strategy = "mixed"
        /\ strategy = "grid" =>
              /\ Labelled("square") >= 1
              /\ Labelled("portrait") <= 2
              /\ Labelled("landscape") <= 2
              /\ Labelled("portrait") + Labelled("landscape") <= 3
              /\ final_image =
                    join_pil_images_vertically(
                        join_images_horizontally(image_paths, 1, 2),
                        join_images_horizontally(image_paths, 3, 4))

\* two portraits and two landscapes, interleaved, arranged as mixed 2+2
C14_Witness ==
    /\ pc = "arranged"
    /\ strategy = "mixed"
    /\ portrait_images = <<1, 3>>
    /\ landscape_images = <<2, 4>>

====
